---- MODULE Spec2Model ----
(***************************************************************************)
(* Model of the Ibase chatbot's PDF processing core (pdf_processor.py:     *)
(* PDFProcessor: construction, the two text extractors, chunk_text,        *)
(* process_pdf) and of the POST /upload handler (app.py: upload_pdf).      *)
(*                                                                         *)
(* Texts are sequences of one-character strings, so that str.split(),      *)
(* " ".join() and len() are computed rather than assumed.                  *)
(***************************************************************************)
EXTENDS Integers, Sequences, FiniteSets, TLC

VARIABLES
    args,        \* the arguments given to PDFProcessor(...)
    processor,   \* the PDFProcessor object: constructed, chunk_size, chunk_overlap
    calls,       \* per call slot: the running process_pdf / chunk_text invocation
    handles,     \* the PDF handles currently open: [call, lib]
    upload       \* the POST /upload request being handled

vars == <<args, processor, calls, handles, upload>>

---------------------------------------------------------------------------
(* Bounds of the model *)

\* constructor arguments range over -MaxNeg .. MaxSize
MaxSize == 4
MaxNeg == 1
\* texts handed directly to chunk_text have at most MaxTextLen characters
MaxTextLen == 5
\* documents have at most MaxPages pages
MaxPages == 2
\* uploaded file names have at most MaxNameLen characters
MaxNameLen == 5

Sizes == (0 - MaxNeg)..MaxSize

\* the defaults of PDFProcessor(chunk_size=1000, chunk_overlap=200)
DefaultChunkSize == 1000
DefaultChunkOverlap == 200

DefaultArgs == [chunk_size |-> DefaultChunkSize, chunk_overlap |-> DefaultChunkOverlap]

Calls == {"A", "B"}

---------------------------------------------------------------------------
(* Characters and texts *)

Letters == {"a", "b"}

\* characters str.split() treats as separators
Whitespace == {" ", "\n"}

Chars == Letters \cup Whitespace

\* the text of the worked example: "a b c d e f g h"
ExampleText == <<"a", " ", "b", " ", "c", " ", "d", " ", "e", " ", "f", " ", "g", " ", "h">>

Texts == (UNION {[1..n -> Chars] : n \in 0..MaxTextLen}) \cup {ExampleText}

Min(a, b) == IF a < b THEN a ELSE b

Max(a, b) == IF a < b THEN b ELSE a

\* str.split() with no argument: the maximal runs of non-whitespace characters
RECURSIVE SplitFrom(_, _, _, _)
SplitFrom(text, i, cur, acc) ==
    IF i > Len(text)
    THEN IF cur = <<>> THEN acc ELSE Append(acc, cur)
    ELSE IF text[i] \in Whitespace
         THEN SplitFrom(text, i + 1, <<>>, IF cur = <<>> THEN acc ELSE Append(acc, cur))
         ELSE SplitFrom(text, i + 1, Append(cur, text[i]), acc)

split(text) == SplitFrom(text, 1, <<>>, <<>>)

\* " ".join(words)
RECURSIVE join(_)
join(words) ==
    IF words = <<>> THEN <<>>
    ELSE IF Len(words) = 1 THEN words[1]
    ELSE words[1] \o <<" ">> \o join(Tail(words))

\* a slice that stops one word early
PySliceOffByOne(words, start, stop) ==
    LET n == Len(words)
        hi == IF stop < 0 THEN Max(stop + n, 0) ELSE Min(stop, n)
        lo == Min(start, n)
    IN  IF hi - 1 <= lo THEN <<>> ELSE SubSeq(words, lo + 1, hi - 1)

\* Python's words[start:stop] for start >= 0: a negative stop counts from the
\* end, and both ends are clamped to the list
PySlice(words, start, stop) ==
    LET n == Len(words)
        hi == IF stop < 0 THEN Max(stop + n, 0) ELSE Min(stop, n)
        lo == Min(start, n)
    IN  IF hi <= lo THEN <<>> ELSE SubSeq(words, lo + 1, hi)

---------------------------------------------------------------------------
(* Exceptions *)

NoExc == [type |-> "none", by |-> "none", cause |-> "none"]

\* range() arg 3 must not be zero
ValueError == [type |-> "ValueError", by |-> "range", cause |-> "zero step"]

\* Exception(f"Error extracting text with PyMuPDF: {str(e)}")
PyMuPDFError(cause) == [type |-> "Exception", by |-> "PyMuPDF", cause |-> cause]

\* Exception(f"Error extracting text with pdfplumber: {str(e)}")
PdfplumberError(cause) == [type |-> "Exception", by |-> "pdfplumber", cause |-> cause]

---------------------------------------------------------------------------
(* PDFProcessor.chunk_text *)

\* a chunk whose chunk_index is its start offset
ChunkIndexedByOffset(words, i, index, chunk_size) ==
    LET chunk_words == PySlice(words, i, i + chunk_size)
    IN  [text |-> join(chunk_words),
         chunk_index |-> i,
         start_char |-> i,
         word_count |-> Len(chunk_words)]

\* one dict appended to chunks
Chunk(words, i, index, chunk_size) ==
    LET chunk_words == PySlice(words, i, i + chunk_size)
    IN  [text |-> join(chunk_words),
         chunk_index |-> index,
         start_char |-> i,
         word_count |-> Len(chunk_words)]

\* a loop that advances one word too far
RECURSIVE ChunkLoopSkip(_, _, _, _, _)
ChunkLoopSkip(words, i, chunks, chunk_size, step) ==
    IF i >= Len(words) THEN chunks
    ELSE ChunkLoopSkip(words, i + step + 1,
                       Append(chunks, Chunk(words, i, Len(chunks), chunk_size)),
                       chunk_size, step)

\* a loop that also runs at i = len(words)
RECURSIVE ChunkLoopInclusive(_, _, _, _, _)
ChunkLoopInclusive(words, i, chunks, chunk_size, step) ==
    IF i > Len(words) THEN chunks
    ELSE ChunkLoopInclusive(words, i + step,
                            Append(chunks, Chunk(words, i, Len(chunks), chunk_size)),
                            chunk_size, step)

\* for i in range(0, len(words), step), step > 0
RECURSIVE ChunkLoop(_, _, _, _, _)
ChunkLoop(words, i, chunks, chunk_size, step) ==
    IF i >= Len(words) THEN chunks
    ELSE ChunkLoop(words, i + step,
                   Append(chunks, Chunk(words, i, Len(chunks), chunk_size)),
                   chunk_size, step)

\* a chunk_text that leaves out a trailing window whose words the window
\* before it already holds
chunk_text_drop_tail(self, text) ==
    LET words == split(text)
        step == self.chunk_size - self.chunk_overlap
        all == ChunkLoop(words, 0, <<>>, self.chunk_size, step)
    IN  IF step = 0 THEN [exc |-> ValueError, value |-> <<>>]
        ELSE IF step < 0 THEN [exc |-> NoExc, value |-> <<>>]
        ELSE [exc |-> NoExc,
              value |-> SelectSeq(all, LAMBDA c :
                            c.start_char = 0 \/ c.start_char + self.chunk_overlap < Len(words))]

\* the outcome of chunk_text(text): the exception it raises, or the list it
\* returns.  range() raises ValueError on a zero step and is empty on a
\* negative one.
chunk_text(self, text) ==
    LET words == split(text)
        step == self.chunk_size - self.chunk_overlap
    IN  IF step = 0 THEN [exc |-> ValueError, value |-> <<>>]
        ELSE IF step < 0 THEN [exc |-> NoExc, value |-> <<>>]
        ELSE [exc |-> NoExc, value |-> ChunkLoop(words, 0, <<>>, self.chunk_size, step)]

---------------------------------------------------------------------------
(* Documents: what the two libraries do with the PDF at a path *)

Paths == {<<"docs", "g.pdf">>}

PageTexts == {<<>>, <<"a", " ">>, <<"b", "\n", "c">>}

\* a page: the text on it, and whether pdfplumber's extract_text() finds none
\* of it (returns None)
Pages == [text : PageTexts, pl_none : BOOLEAN]

\* A document is its path, its pages and where each library fails on it:
\* mu_fail / pl_fail = 0: the library reads the whole document; 1: its open()
\* raises; k + 1: its text extraction raises on page k.
Docs ==
    UNION {[path : Paths, pages : [1..n -> Pages],
            mu_fail : 0..(n + 1), pl_fail : 0..(n + 1)] : n \in 0..MaxPages}

NoDoc == [path |-> <<>>, pages |-> <<>>, mu_fail |-> 0, pl_fail |-> 0]

\* os.path.basename of a path given by its components
basename(path) == IF path = <<>> THEN <<>> ELSE <<path[Len(path)]>>

---------------------------------------------------------------------------
(* State *)

NewCall ==
    [op |-> "none", pc |-> "idle", doc |-> NoDoc, text |-> <<>>, i |-> 0,
     mu_calls |-> 0, pl_calls |-> 0, chunk_calls |-> 0, exc |-> NoExc, chunks |-> <<>>, result |-> <<>>]

NoUpload == [pc |-> "idle", filename |-> <<>>, user_id |-> "", exc |-> <<>>, response |-> <<>>]

Init ==
    /\ args \in [chunk_size : Sizes, chunk_overlap : Sizes] \cup {DefaultArgs}
    /\ processor = [constructed |-> FALSE, chunk_size |-> 0, chunk_overlap |-> 0]
    /\ calls = [c \in Calls |-> NewCall]
    /\ handles = {}
    /\ upload = NoUpload

Handle(c, lib) == [call |-> c, lib |-> lib]

---------------------------------------------------------------------------
(* PDFProcessor.__init__ *)

\* __init__ stores both arguments as given; it validates nothing and never raises
PDFProcessor_init(chunk_size, chunk_overlap) ==
    [constructed |-> TRUE, chunk_size |-> chunk_size, chunk_overlap |-> chunk_overlap]

Construct ==
    /\ ~processor.constructed
    /\ processor' = PDFProcessor_init(args.chunk_size, args.chunk_overlap)
    /\ UNCHANGED <<args, calls, handles, upload>>

---------------------------------------------------------------------------
(* PDFProcessor.process_pdf and the extractors it calls *)

\* process_pdf(pdf_path) is entered and calls extract_text_pymupdf, whose
\* first statement is text = ""
process_pdf_call(c, docs) ==
    /\ processor.constructed
    /\ calls[c].pc = "idle"
    /\ \E d \in docs :
          calls' = [calls EXCEPT ![c] =
                       [NewCall EXCEPT !.op = "process_pdf", !.pc = "mu_open",
                                       !.doc = d, !.mu_calls = 1]]
    /\ UNCHANGED <<args, processor, handles, upload>>

\* doc = fitz.open(pdf_path)
pymupdf_open(c) ==
    /\ calls[c].pc = "mu_open"
    /\ IF calls[c].doc.mu_fail # 1
       THEN /\ handles' = handles \cup {Handle(c, "fitz")}
            /\ calls' = [calls EXCEPT ![c].pc = "mu_page", ![c].i = 1]
       ELSE /\ handles' = handles
            /\ calls' = [calls EXCEPT ![c].pc = "except",
                                      ![c].exc = PyMuPDFError("open")]
    /\ UNCHANGED <<args, processor, upload>>

\* one iteration of: for page in doc: text += page.get_text().  When
\* get_text raises, the except clause raises the wrapped error and
\* doc.close() is not reached.
pymupdf_page(c) ==
    /\ calls[c].pc = "mu_page"
    /\ calls[c].i <= Len(calls[c].doc.pages)
    /\ LET page == calls[c].doc.pages[calls[c].i]
       IN  IF calls[c].doc.mu_fail # calls[c].i + 1
           THEN calls' = [calls EXCEPT ![c].text = @ \o page.text, ![c].i = @ + 1]
           ELSE calls' = [calls EXCEPT ![c].pc = "except",
                                       ![c].exc = PyMuPDFError("page")]
    /\ UNCHANGED <<args, processor, handles, upload>>

\* the loop is over: doc.close(); return text
pymupdf_close(c) ==
    /\ calls[c].pc = "mu_page"
    /\ calls[c].i > Len(calls[c].doc.pages)
    /\ handles' = handles \ {Handle(c, "fitz")}
    /\ calls' = [calls EXCEPT ![c].pc = "chunk"]
    /\ UNCHANGED <<args, processor, upload>>

\* the bare except: of process_pdf calls extract_text_pdfplumber, whose first
\* statement is text = ""
process_pdf_except(c) ==
    /\ calls[c].pc = "except"
    /\ calls' = [calls EXCEPT ![c].pc = "pl_open", ![c].pl_calls = @ + 1,
                              ![c].text = <<>>, ![c].i = 0]
    /\ UNCHANGED <<args, processor, handles, upload>>

\* with pdfplumber.open(pdf_path) as pdf:
pdfplumber_open(c) ==
    /\ calls[c].pc = "pl_open"
    /\ IF calls[c].doc.pl_fail # 1
       THEN /\ handles' = handles \cup {Handle(c, "pdfplumber")}
            /\ calls' = [calls EXCEPT ![c].pc = "pl_page", ![c].i = 1]
       ELSE /\ handles' = handles
            /\ calls' = [calls EXCEPT ![c].pc = "propagate",
                                      ![c].exc = PdfplumberError("open")]
    /\ UNCHANGED <<args, processor, upload>>

\* one iteration of: for page in pdf.pages: text += page.extract_text() or "".
\* When extract_text raises, the with statement closes the pdf on the way out.
pdfplumber_page(c) ==
    /\ calls[c].pc = "pl_page"
    /\ calls[c].i <= Len(calls[c].doc.pages)
    /\ LET page == calls[c].doc.pages[calls[c].i]
       IN  IF calls[c].doc.pl_fail = calls[c].i + 1
           THEN /\ handles' = handles \ {Handle(c, "pdfplumber")}
                /\ calls' = [calls EXCEPT ![c].pc = "propagate",
                                          ![c].exc = PdfplumberError("page")]
           ELSE /\ handles' = handles
                /\ calls' = [calls EXCEPT
                                ![c].text = @ \o (IF page.pl_none THEN <<>> ELSE page.text),
                                ![c].i = @ + 1]
    /\ UNCHANGED <<args, processor, upload>>

\* the loop is over: the with statement closes the pdf; return text.  The
\* except block of process_pdf ends and the handled exception is cleared.
pdfplumber_close(c) ==
    /\ calls[c].pc = "pl_page"
    /\ calls[c].i > Len(calls[c].doc.pages)
    /\ handles' = handles \ {Handle(c, "pdfplumber")}
    /\ calls' = [calls EXCEPT ![c].pc = "chunk", ![c].exc = NoExc]
    /\ UNCHANGED <<args, processor, upload>>

\* chunk_text(text) called directly on a text
chunk_text_call(c) ==
    /\ processor.constructed
    /\ calls[c].pc = "idle"
    /\ \E t \in Texts :
          calls' = [calls EXCEPT ![c] =
                       [NewCall EXCEPT !.op = "chunk_text", !.pc = "chunk", !.text = t]]
    /\ UNCHANGED <<args, processor, handles, upload>>

\* a chunk_text that shrinks self.chunk_size to the text it was given
chunk_text_run_shrinks_config(c) ==
    /\ calls[c].pc = "chunk"
    /\ LET r == chunk_text(processor, calls[c].text)
           direct == calls[c].op = "chunk_text"
       IN  IF r.exc = NoExc
           THEN calls' = [calls EXCEPT ![c].chunks = r.value, ![c].chunk_calls = @ + 1,
                                       ![c].pc = IF direct THEN "returned" ELSE "assemble"]
           ELSE calls' = [calls EXCEPT ![c].exc = r.exc, ![c].chunk_calls = @ + 1,
                                       ![c].pc = IF direct THEN "raised" ELSE "propagate"]
    /\ processor' = [processor EXCEPT
                        !.chunk_size = Min(@, Max(Len(split(calls[c].text)), 1))]
    /\ UNCHANGED <<args, handles, upload>>

\* chunks = self.chunk_text(text): runs chunk_text to its return or raise
chunk_text_run(c) ==
    /\ calls[c].pc = "chunk"
    /\ LET r == chunk_text(processor, calls[c].text)
           direct == calls[c].op = "chunk_text"
       IN  IF r.exc = NoExc
           THEN calls' = [calls EXCEPT ![c].chunks = r.value, ![c].chunk_calls = @ + 1,
                                       ![c].pc = IF direct THEN "returned" ELSE "assemble"]
           ELSE calls' = [calls EXCEPT ![c].exc = r.exc, ![c].chunk_calls = @ + 1,
                                       ![c].pc = IF direct THEN "raised" ELSE "propagate"]
    /\ UNCHANGED <<args, processor, handles, upload>>

\* return {"filename": ..., "full_text": ..., "chunks": ..., ...}
process_pdf_return(c) ==
    /\ calls[c].pc = "assemble"
    /\ calls' = [calls EXCEPT
                    ![c].result = <<[filename |-> basename(calls[c].doc.path),
                                     full_text |-> calls[c].text,
                                     chunks |-> calls[c].chunks,
                                     total_chunks |-> Len(calls[c].chunks),
                                     total_chars |-> Len(calls[c].text)]>>,
                    ![c].pc = "returned"]
    /\ UNCHANGED <<args, processor, handles, upload>>

\* a process_pdf that raises an error of its own in place of the one it got
process_pdf_raise_wrapped(c) ==
    /\ calls[c].pc = "propagate"
    /\ calls' = [calls EXCEPT ![c].pc = "raised",
                              ![c].exc = [type |-> "Exception", by |-> "process_pdf",
                                          cause |-> calls[c].exc.by]]
    /\ UNCHANGED <<args, processor, handles, upload>>

\* an exception raised by the fallback or by chunk_text leaves process_pdf
process_pdf_raise(c) ==
    /\ calls[c].pc = "propagate"
    /\ calls' = [calls EXCEPT ![c].pc = "raised"]
    /\ UNCHANGED <<args, processor, handles, upload>>

process_pdf_step(c) ==
    \/ pymupdf_open(c)
    \/ pymupdf_page(c)
    \/ pymupdf_close(c)
    \/ process_pdf_except(c)
    \/ pdfplumber_open(c)
    \/ pdfplumber_page(c)
    \/ pdfplumber_close(c)
    \/ chunk_text_run(c)
    \/ process_pdf_return(c)
    \/ process_pdf_raise(c)

---------------------------------------------------------------------------
(* Specifications *)

\* one processor and one call on it: process_pdf on a document, or chunk_text
\* on a text
Next ==
    \/ Construct
    \/ process_pdf_call("A", Docs)
    \/ chunk_text_call("A")
    \/ process_pdf_step("A")

Spec == Init /\ [][Next]_vars

\* two process_pdf calls on one processor, their steps interleaved
\* (on the one-page documents whose page both libraries can see)
ParDocs ==
    {d \in Docs : /\ Len(d.pages) = 1
                  /\ d.pages[1].text # <<>>
                  /\ ~d.pages[1].pl_none}

NextPar ==
    \/ Construct
    \/ \E c \in Calls : process_pdf_call(c, ParDocs)
    \/ \E c \in Calls : process_pdf_step(c)

SpecPar == Init /\ [][NextPar]_vars

---------------------------------------------------------------------------
(* app.py: POST /upload *)

NameChars == {"x", ".", "p", "d", "f"}

Filenames == UNION {[1..n -> NameChars] : n \in 0..MaxNameLen}

UserIds == {"u1", "u2"}

DotPdf == <<".", "p", "d", "f">>

\* str.endswith
endswith(str, suffix) ==
    /\ Len(str) >= Len(suffix)
    /\ SubSeq(str, Len(str) - Len(suffix) + 1, Len(str)) = suffix

HTTPException(status_code, detail) == [status_code |-> status_code, detail |-> detail]

\* str(e) of an HTTPException: "<status_code>: <detail>"
StrHTTPException(e) == <<ToString(e.status_code), ": ">> \o e.detail

Response(status_code, detail, message, filename, user_id, status) ==
    [status_code |-> status_code, detail |-> detail, message |-> message,
     filename |-> filename, user_id |-> user_id, status |-> status]

\* a multipart request with a file and a user_id form field arrives
upload_pdf_call ==
    /\ upload.pc = "idle"
    /\ \E f \in Filenames, u \in UserIds :
          upload' = [NoUpload EXCEPT !.pc = "validate", !.filename = f, !.user_id = u]
    /\ UNCHANGED <<args, processor, calls, handles>>

\* if not file.filename.endswith(".pdf"): raise HTTPException(400, ...)
\* The raise stands inside the try block.
upload_pdf_validate ==
    /\ upload.pc = "validate"
    /\ IF endswith(upload.filename, DotPdf)
       THEN upload' = [upload EXCEPT !.pc = "return"]
       ELSE upload' = [upload EXCEPT
                         !.pc = "except",
                         !.exc = <<HTTPException(400, <<"Only PDF files allowed">>)>>]
    /\ UNCHANGED <<args, processor, calls, handles>>

\* except Exception as e: raise HTTPException(status_code=500, detail=str(e)).
\* HTTPException is an Exception, so the 400 raised above is caught here; the
\* error that leaves the handler is the response.
upload_pdf_except ==
    /\ upload.pc = "except"
    /\ LET e == HTTPException(500, StrHTTPException(upload.exc[1]))
       IN  upload' = [upload EXCEPT
                         !.pc = "responded",
                         !.exc = <<e>>,
                         !.response = <<Response(e.status_code, e.detail, "", <<>>, "", "")>>]
    /\ UNCHANGED <<args, processor, calls, handles>>

\* return {"message": ..., "filename": ..., "user_id": ..., "status": "processed"}
upload_pdf_return ==
    /\ upload.pc = "return"
    /\ upload' = [upload EXCEPT
                     !.pc = "responded",
                     !.response = <<Response(200, <<>>, "PDF uploaded successfully",
                                             upload.filename, upload.user_id, "processed")>>]
    /\ UNCHANGED <<args, processor, calls, handles>>

NextUpload ==
    \/ upload_pdf_call
    \/ upload_pdf_validate
    \/ upload_pdf_except
    \/ upload_pdf_return

\* the handler builds no PDFProcessor: the processor stays unconstructed
InitUpload ==
    /\ Init
    /\ args = DefaultArgs

SpecUpload == InitUpload /\ [][NextUpload]_vars

---------------------------------------------------------------------------
(* What the claims speak about *)

S == processor.chunk_size

O == processor.chunk_overlap

Words(c) == split(calls[c].text)

\* chunk_text ran in call c and returned its list
ChunkTextReturned(c) ==
    /\ calls[c].chunk_calls = 1
    /\ calls[c].pc \in {"assemble", "returned"}

\* the list of n records is laid out at 0, stride, 2*stride, ...
OffsetsAdvanceBy(chunks, stride) ==
    /\ chunks # <<>> => chunks[1].start_char = 0
    /\ \A k \in 1..(Len(chunks) - 1) :
          chunks[k + 1].start_char = chunks[k].start_char + stride

\* every word position 0 .. n-1 lies inside some chunk's window
EveryWordCovered(chunks, n) ==
    \A w \in 0..(n - 1) :
       \E k \in 1..Len(chunks) :
          /\ chunks[k].start_char <= w
          /\ w < chunks[k].start_char + chunks[k].word_count

OffsetsAndCoverage(c) ==
    LET chunks == calls[c].chunks
        n == Len(Words(c))
    IN  /\ OffsetsAdvanceBy(chunks, S - O)
        /\ chunks # <<>> => chunks[Len(chunks)].start_char + S >= n
        /\ EveryWordCovered(chunks, n)

\* the number of start indices 0, stride, 2*stride, ... below n
StartCount(n, stride) == IF n <= 0 THEN 0 ELSE ((n - 1) \div stride) + 1

\* chunk k (from 0) is words[k*stride : k*stride + S], for every start below n
ChunksAreSlices(c) ==
    LET chunks == calls[c].chunks
        words == Words(c)
        n == Len(words)
        stride == S - O
    IN  /\ Len(chunks) = StartCount(n, stride)
        /\ \A k \in 0..(Len(chunks) - 1) :
              LET m == Min(S, n - k * stride)
              IN  /\ m >= 1
                  /\ m <= S
                  /\ chunks[k + 1].chunk_index = k
                  /\ chunks[k + 1].start_char = k * stride
                  /\ chunks[k + 1].word_count = m
                  /\ chunks[k + 1].text = join([j \in 1..m |-> words[k * stride + j]])

ExampleChunks ==
    << [text |-> <<"a", " ", "b", " ", "c", " ", "d">>, chunk_index |-> 0,
        start_char |-> 0, word_count |-> 4],
       [text |-> <<"c", " ", "d", " ", "e", " ", "f">>, chunk_index |-> 1,
        start_char |-> 2, word_count |-> 4],
       [text |-> <<"e", " ", "f", " ", "g", " ", "h">>, chunk_index |-> 2,
        start_char |-> 4, word_count |-> 4],
       [text |-> <<"g", " ", "h">>, chunk_index |-> 3,
        start_char |-> 6, word_count |-> 2] >>

ExampleHolds(c) ==
    (calls[c].text = ExampleText /\ S = 4 /\ O = 2) => calls[c].chunks = ExampleChunks

\* What a document is, read off the document alone: whether each library
\* gets through it, and the text each one yields.
MuSucceeds(d) == d.mu_fail = 0

PlSucceeds(d) == d.pl_fail = 0

RECURSIVE MuText(_)
MuText(pages) ==
    IF pages = <<>> THEN <<>> ELSE pages[1].text \o MuText(Tail(pages))

RECURSIVE PlText(_)
PlText(pages) ==
    IF pages = <<>> THEN <<>>
    ELSE (IF pages[1].pl_none THEN <<>> ELSE pages[1].text) \o PlText(Tail(pages))

Extracts(d) == MuSucceeds(d) \/ PlSucceeds(d)

ExtractedText(d) == IF MuSucceeds(d) THEN MuText(d.pages) ELSE PlText(d.pages)

\* the error extract_text_pdfplumber raises on d
PlErrorOf(d) == PdfplumberError(IF d.pl_fail = 1 THEN "open" ELSE "page")

Ended(c) == calls[c].pc \in {"returned", "raised"}

\* what process_pdf gives on document d under the constructor arguments a
\* when nothing else runs
AloneOutcome(d, a) ==
    IF ~Extracts(d) THEN [exc |-> PlErrorOf(d), result |-> <<>>]
    ELSE LET t == ExtractedText(d)
             r == chunk_text(a, t)
         IN  IF r.exc # NoExc THEN [exc |-> r.exc, result |-> <<>>]
             ELSE [exc |-> NoExc,
                   result |-> <<[filename |-> <<d.path[Len(d.path)]>>,
                                 full_text |-> t,
                                 chunks |-> r.value,
                                 total_chunks |-> Len(r.value),
                                 total_chars |-> Len(t)]>>]

SuccessResponse(filename, user_id) ==
    [status_code |-> 200, detail |-> <<>>, message |-> "PDF uploaded successfully",
     filename |-> filename, user_id |-> user_id, status |-> "processed"]

---------------------------------------------------------------------------
(* Claims *)

\* C1 (as claimed): a processor is never constructed with chunk_overlap >=
\* chunk_size (construction fails instead), so chunk_text never runs with a
\* stride <= 0 and never returns an empty list for a text that has words.
C1_NonPositiveStrideRejected ==
    /\ processor.constructed => O < S
    /\ \A c \in Calls : calls[c].chunk_calls = 1 => S - O > 0
    /\ \A c \in Calls :
          (ChunkTextReturned(c) /\ Words(c) # <<>>) => calls[c].chunks # <<>>

\* C2 (as claimed): with chunk_overlap < chunk_size, a text of N <= chunk_size
\* words yields exactly one chunk, and its word_count is N.
C2_OneChunkUpToChunkSize ==
    \A c \in Calls :
       (ChunkTextReturned(c) /\ O < S /\ Len(Words(c)) <= S)
       => /\ Len(calls[c].chunks) = 1
          /\ calls[c].chunks[1].word_count = Len(Words(c))

\* C2 (amended): with chunk_overlap < chunk_size, a text of N words, 1 <= N <=
\* chunk_size, yields a first chunk that holds all N words (word_count = N),
\* and it is the only chunk exactly when N <= chunk_size - chunk_overlap.
C2_FirstChunkHoldsAllWords ==
    \A c \in Calls :
       (ChunkTextReturned(c) /\ O < S /\ 1 <= Len(Words(c)) /\ Len(Words(c)) <= S)
       => /\ calls[c].chunks # <<>>
          /\ calls[c].chunks[1].word_count = Len(Words(c))
          /\ calls[c].chunks[1].text = join(Words(c))
          /\ (Len(calls[c].chunks) = 1) <=> (Len(Words(c)) <= S - O)

\* C2 (witness): a text of 2 or more words, no longer than the stride, came
\* back as one chunk under a configuration with a real overlap.
C2_Witness ==
    \E c \in Calls :
       /\ ChunkTextReturned(c)
       /\ 1 <= O /\ O < S
       /\ 2 <= Len(Words(c)) /\ Len(Words(c)) <= S - O
       /\ Len(calls[c].chunks) = 1

\* C5 (as claimed): for every overlap O < size S the start offsets begin at 0
\* and advance by S - O, the last chunk's start plus S reaches the word count,
\* and every word lies in some chunk.
C5_OffsetsForAnyOverlapBelowSize ==
    \A c \in Calls : (ChunkTextReturned(c) /\ O < S) => OffsetsAndCoverage(c)

\* C5 (amended): the same, for every overlap 0 <= O < S.
C5_OffsetsForNonNegativeOverlap ==
    \A c \in Calls : (ChunkTextReturned(c) /\ 0 <= O /\ O < S) => OffsetsAndCoverage(c)

\* C5 (witness): three or more chunks under a real overlap, the last one short.
C5_Witness ==
    \E c \in Calls :
       /\ ChunkTextReturned(c)
       /\ 1 <= O /\ O < S
       /\ Len(calls[c].chunks) >= 3
       /\ calls[c].chunks[Len(calls[c].chunks)].word_count < S

\* C7 (as claimed): for every configuration with chunk_overlap < chunk_size,
\* chunk k is the slice words[k*stride : k*stride + chunk_size] joined with
\* single spaces, with chunk_index k, offset k*stride and word_count the slice
\* length, between 1 and chunk_size; there is one chunk per start k*stride
\* below the word count; and the worked example yields its four chunks.
C7_ChunksAreSlicesForAnySize ==
    \A c \in Calls :
       (ChunkTextReturned(c) /\ O < S) => (ChunksAreSlices(c) /\ ExampleHolds(c))

\* C7 (amended): the same, for every configuration with chunk_size >= 1 and
\* chunk_overlap < chunk_size.
C7_ChunksAreSlicesForPositiveSize ==
    \A c \in Calls :
       (ChunkTextReturned(c) /\ 1 <= S /\ O < S) => (ChunksAreSlices(c) /\ ExampleHolds(c))

\* C7 (witness): the worked example was chunked with chunk_size 4 and
\* chunk_overlap 2 and gave four chunks.
C7_Witness ==
    \E c \in Calls :
       /\ ChunkTextReturned(c)
       /\ calls[c].text = ExampleText /\ S = 4 /\ O = 2
       /\ Len(calls[c].chunks) = 4

\* C3: in process_pdf the primary extraction is called once; the fallback is
\* never called when the primary gets through the document and is called
\* exactly once when it does not; when the fallback fails too, process_pdf
\* ends by raising the fallback's own error, returns no result and never runs
\* chunk_text.
C3_FallbackOnceAndItsErrorSurfaces ==
    \A c \in Calls :
       calls[c].op = "process_pdf" =>
          /\ calls[c].mu_calls = 1
          /\ calls[c].pl_calls <= 1
          /\ MuSucceeds(calls[c].doc) => calls[c].pl_calls = 0
          /\ (Ended(c) /\ ~MuSucceeds(calls[c].doc)) => calls[c].pl_calls = 1
          /\ (Ended(c) /\ ~Extracts(calls[c].doc))
             => /\ calls[c].pc = "raised"
                /\ calls[c].exc = PlErrorOf(calls[c].doc)
                /\ calls[c].result = <<>>
                /\ calls[c].chunk_calls = 0

\* C3 (witness): a call ended by raising after the primary failed on a page
\* and the fallback, tried once, failed on a page too.
C3_Witness ==
    \E c \in Calls :
       /\ calls[c].op = "process_pdf" /\ calls[c].pc = "raised"
       /\ calls[c].doc.mu_fail > 1 /\ calls[c].doc.pl_fail > 1
       /\ calls[c].pl_calls = 1
       /\ calls[c].exc.by = "pdfplumber"

\* C4 (as claimed): a handle on the PDF is open only while the extraction that
\* opened it is running; once that extraction has returned or raised, and
\* after process_pdf has ended, none is left open.
C4_HandlesReleasedOnEveryExit ==
    \A c \in Calls :
       /\ Handle(c, "fitz") \in handles => calls[c].pc = "mu_page"
       /\ Handle(c, "pdfplumber") \in handles => calls[c].pc = "pl_page"

\* C6: every result process_pdf returns has total_chunks = len(chunks),
\* total_chars = len(full_text) and chunk_index values 0, 1, ..., total_chunks-1
\* in order.
C6_ResultCountsAndIndices ==
    \A c \in Calls :
       (calls[c].op = "process_pdf" /\ calls[c].pc = "returned")
       => /\ Len(calls[c].result) = 1
          /\ LET r == calls[c].result[1]
             IN  /\ r.total_chunks = Len(r.chunks)
                 /\ r.total_chars = Len(r.full_text)
                 /\ \A k \in 1..r.total_chunks : r.chunks[k].chunk_index = k - 1

\* C6 (witness): a result with three or more chunks was returned.
C6_Witness ==
    \E c \in Calls :
       /\ calls[c].op = "process_pdf" /\ calls[c].pc = "returned"
       /\ calls[c].result[1].total_chunks >= 3
       /\ calls[c].result[1].total_chars > calls[c].result[1].total_chunks

\* C8: under every configuration with chunk_overlap < chunk_size, chunk_text
\* on the empty text returns the empty list and raises nothing, and
\* process_pdf on a document whose extracted text is empty returns a result
\* with total_chunks = 0 and total_chars = 0.
C8_EmptyTextYieldsNoChunks ==
    \A c \in Calls :
       O < S =>
          /\ (calls[c].op = "chunk_text" /\ calls[c].text = <<>> /\ Ended(c))
             => /\ calls[c].pc = "returned"
                /\ calls[c].exc = NoExc
                /\ calls[c].chunks = <<>>
          /\ (/\ calls[c].op = "process_pdf" /\ Ended(c)
              /\ Extracts(calls[c].doc) /\ ExtractedText(calls[c].doc) = <<>>)
             => /\ calls[c].pc = "returned"
                /\ calls[c].exc = NoExc
                /\ calls[c].result[1].chunks = <<>>
                /\ calls[c].result[1].total_chunks = 0
                /\ calls[c].result[1].total_chars = 0

\* C8 (witness): process_pdf returned on a document with a page of text that
\* the primary failed on and in which the fallback found no text.
C8_Witness ==
    \E c \in Calls :
       /\ O < S
       /\ calls[c].op = "process_pdf" /\ calls[c].pc = "returned"
       /\ calls[c].doc.pages # <<>>
       /\ \A k \in 1..Len(calls[c].doc.pages) : calls[c].doc.pages[k].text # <<>>
       /\ calls[c].pl_calls = 1
       /\ calls[c].result[1].total_chars = 0

C10_NonPdfUploadAnswered400 ==
    upload.pc = "responded" =>
       /\ Len(upload.response) = 1
       /\ IF endswith(upload.filename, DotPdf)
          THEN upload.response[1] = SuccessResponse(upload.filename, upload.user_id)
          ELSE /\ upload.response[1].status_code = 400
               /\ upload.response[1].detail = <<"Only PDF files allowed">>

====
